---------------------------- MODULE Spec2Model ----------------------------
(***************************************************************************)
(* Live telemetry relay of wesonwheels/flightracker.                       *)
(*                                                                         *)
(* The repository holds six deployments of the same relay, each with its   *)
(* own POST /ingest and GET /stream:                                       *)
(*   "global" src/server.js:1-174      one clients list, one lastData,     *)
(*                                     heartbeat, try/catch around writes  *)
(*   "push"   src/server.js:176-254    per-flight Map of Sets, push        *)
(*   "poll"   src/server.mjs:310-358   per-flight liveData, 1 s polling    *)
(*   "bare"   src/unnamed/part_000     clients list, no heartbeat          *)
(*   "stub"   src/unnamed/part_001:174-213  synthetic stream, no ingest    *)
(*   "poll2"  src/unnamed/part_001:385-432  polling, no ping frame         *)
(* `variant` says which of them is running.  Every handler is one action:  *)
(* Node runs a handler to completion before the next event is taken.       *)
(***************************************************************************)
EXTENDS Integers, Sequences, FiniteSets, TLC

\* ------------------------------------------------------------- bounds
MaxConns   == 2      \* stream connections ever opened
MaxIngests == 2      \* POST /ingest requests ever made
MaxTicks   == 1      \* interval-timer firings ever taken
MaxCloses  == 2      \* close notifications one connection gets

Conns    == 1 .. MaxConns
Variants == {"global", "push", "poll", "bare", "stub", "poll2"}

\* ---------------------------------------------------- JavaScript values
\* One record shape for every value, so that values of different JavaScript
\* types can be compared: k is the type tag, n the number, s the string.
Undef  == [k |-> "undef", n |-> 0, s |-> ""]
Null   == [k |-> "null",  n |-> 0, s |-> ""]
NaN    == [k |-> "nan",   n |-> 0, s |-> ""]
Inf    == [k |-> "inf",   n |-> 0, s |-> ""]
Num(n) == [k |-> "num",   n |-> n, s |-> ""]
Str(s) == [k |-> "str",   n |-> 0, s |-> s]

\* ToBoolean: undefined, null, NaN, 0 and "" are falsy.
Truthy(v) ==
    CASE v.k = "undef" -> FALSE
      [] v.k = "null"  -> FALSE
      [] v.k = "nan"   -> FALSE
      [] v.k = "num"   -> v.n # 0
      [] v.k = "str"   -> v.s # ""
      [] OTHER         -> TRUE

\* a || b
OrElse(a, b) == IF Truthy(a) THEN a ELSE b

\* a ?? b
Nullish(a, b) == IF a.k \in {"undef", "null"} THEN b ELSE a

\* typeof v === "number"
TypeofNumber(v) == v.k \in {"num", "nan", "inf"}

\* The numeric strings the inputs use, and their values.
StrToNum(s) ==
    CASE s = ""   -> Num(0)
      [] s = "12" -> Num(12)
      [] OTHER    -> NaN

\* Number(v)
ToNumber(v) ==
    CASE v.k = "undef" -> NaN
      [] v.k = "null"  -> Num(0)
      [] v.k = "str"   -> StrToNum(v.s)
      [] OTHER         -> v

\* String(v) and v.toString(), for the values a flight identifier can be.
ToStr(v) ==
    CASE v.k = "str"   -> v.s
      [] v.k = "undef" -> "undefined"
      [] v.k = "null"  -> "null"
      [] v.k = "nan"   -> "NaN"
      [] v.k = "inf"   -> "Infinity"
      [] OTHER         -> IF v.n = 12 THEN "12" ELSE "0"

\* ------------------------------------------------------------ samples
Fields == {"flight", "lat", "lon", "alt_ft", "hdg_deg", "gs_kts", "vs_fpm",
           "tas_kts", "serverTs"}

\* {} : every field absent.
EmptyObj == [f \in Fields |-> Undef]

\* JSON.stringify of one value: NaN and Infinity become null; an undefined
\* property is left out (it stays Undef, read as "absent from the text").
JsonValue(v) == IF v.k \in {"nan", "inf"} THEN Null ELSE v

\* JSON.stringify(obj): the text written to a stream, as the object a client
\* parses out of it.
Stringify(obj) == [f \in Fields |-> JsonValue(obj[f])]

\* Request bodies, as express.json() hands them over (JSON.parse("1e999") is
\* Infinity).
BodyExample  == [EmptyObj EXCEPT !.lat = Num(33), !.lon = Num(-97),
                                 !.alt_ft = Num(10000)]
BodyClientTs == [EmptyObj EXCEPT !.lat = Num(34), !.lon = Num(-96),
                                 !.alt_ft = Str("abc"), !.serverTs = Num(0)]
BodyFlightB  == [EmptyObj EXCEPT !.lat = Num(35), !.lon = Num(-95),
                                 !.flight = Str("B"), !.gs_kts = Str("12"),
                                 !.serverTs = Num(5)]
BodyLatText  == [EmptyObj EXCEPT !.lat = Str("not a number"), !.lon = Num(-97)]
BodyLatInf   == [EmptyObj EXCEPT !.lat = Inf, !.lon = Num(-97)]
BodyNoLon    == [EmptyObj EXCEPT !.lat = Num(33)]
Bodies == {BodyExample, BodyClientTs, BodyFlightB, BodyLatText, BodyLatInf,
           BodyNoLon}

\* The bodies and tokens of the traffic runs: two valid samples that differ,
\* with the configured secret or with no token.
TrafficBodies == {BodyExample, BodyClientTs}

\* req.query.flight on either endpoint: absent, or a name.
Queries == {Undef, Str("A")}

\* The keys a channel is stored under.  The deployments with one global list
\* keep everything under GlobalKey.
GlobalKey == "*"
FlightKeys == {"default", "A", "B"}
ChanKeys == FlightKeys \cup {GlobalKey}

\* Date.now(): some positive number of milliseconds.
Times == {1000}

\* process.env.INGEST_TOKEN, and the x-ingest-token header of a request.
EnvSecret    == Str("s3cret")
EnvTokens    == {Undef, EnvSecret}
PushFallback == Str("449a6c2b8a4361a5f5c6058ad56c4a1e")
PollFallback == Str("changeme-ingest-token")
Tokens == {Undef, EnvSecret, PushFallback, PollFallback}
TrafficTokens == {Undef, EnvSecret}

\* ------------------------------------------------------------- frames
\* One SSE frame: a data event carrying JSON text, or a comment line.
DataFrame(json) == [t |-> "data", j |-> json, s |-> ""]
Comment(text)   == [t |-> "comment", j |-> EmptyObj, s |-> text]

VARIABLES
    variant,     \* which deployment runs
    env,         \* process.env.INGEST_TOKEN
    crashed,     \* an exception escaped a timer callback: the process is gone
    clients,     \* channel key -> registered connections, in insertion order
    latest,      \* channel key -> <<>> or <<last sample>> (latest, lastData, liveData)
    phase,       \* connection -> "new" | "open" | "closed" (close handler ran)
    closes,      \* connection -> close notifications handled so far
    cflight,     \* connection -> the flight its stream request asked for
    sink,        \* connection -> "up" | "broken" (remote end gone)
    timer,       \* connection -> its interval timer is active
    wrote,       \* connection -> the frames that reached the client
    track,       \* connection -> the stub's lat, lon, alt closure variables
    lastReq,     \* the last ingest request
    lastResp,    \* the status that request was answered with
    ingestLog,   \* every sample an ingest stored, in order, with its flight
    joinedAt,    \* connection -> Len(ingestLog) when its stream handler ran
    lateWrites,  \* connections written to after their close handler ran
    nIngest,
    nTicks

vars == <<variant, env, crashed, clients, latest, phase, closes, cflight, sink, timer,
          wrote, track, lastReq, lastResp, ingestLog, joinedAt, lateWrites,
          nIngest, nTicks>>

NoReq == [q |-> Undef, body |-> EmptyObj, tok |-> Undef, now |-> 0]
NoTrack == [lat |-> 0, lon |-> 0, alt |-> 0]

Init ==
    /\ variant \in Variants
    /\ env \in EnvTokens
    /\ crashed = FALSE
    /\ clients = [k \in ChanKeys |-> <<>>]
    /\ latest = [k \in ChanKeys |-> <<>>]
    /\ phase = [c \in Conns |-> "new"]
    /\ closes = [c \in Conns |-> 0]
    /\ cflight = [c \in Conns |-> "default"]
    /\ sink = [c \in Conns |-> "up"]
    /\ timer = [c \in Conns |-> FALSE]
    /\ wrote = [c \in Conns |-> <<>>]
    /\ track = [c \in Conns |-> NoTrack]
    /\ lastReq = NoReq
    /\ lastResp = 0
    /\ ingestLog = <<>>
    /\ joinedAt = [c \in Conns |-> 0]
    /\ lateWrites = {}
    /\ nIngest = 0
    /\ nTicks = 0


\* ------------------------------------------------------------- writes
\* res.write(frame) on connection c.  While the remote end is there the frame
\* reaches it.  Once it is gone the frame is lost, and the call either returns
\* or raises: the handlers that guard the call (src/server.js:59, :80, "ignore
\* broken pipes") expect it to raise, the others expect it to return.  Both
\* outcomes are kept; `throws` says which one this call takes.
Delivered(w, c, frame) ==
    IF sink[c] = "up" THEN [w EXCEPT ![c] = Append(@, frame)] ELSE w

Raises(c, throws) == sink[c] = "broken" /\ throws

\* for (const c of list) c.write(frame), from the first element on.  thr is
\* the set of connections whose write raises; guarded says whether each write
\* sits in its own try/catch.  Gives the frames delivered (w), whether an
\* exception left the loop (threw) and the connections written to (att).
RECURSIVE Fanout(_, _, _, _, _)
\* Fanout as a loop that waits at a subscriber whose client does not read:
\* the subscribers before it are written, those after it are not.
FanoutAwaitDrain(list, frame, w, thr, guarded) ==
    LET stalled == {i \in 1 .. Len(list) : sink[list[i]] = "stalled"}
        n       == IF stalled = {} THEN Len(list) + 1
                   ELSE CHOOSE i \in stalled : \A j \in stalled : i <= j
        done    == {list[i] : i \in 1 .. n - 1}
    IN  [w     |-> [c \in DOMAIN w |->
                       IF c \in done /\ sink[c] = "up" THEN Append(w[c], frame)
                       ELSE w[c]],
         threw |-> FALSE,
         att   |-> done]

Fanout(list, frame, w, thr, guarded) ==
    IF list = <<>>
    THEN [w |-> w, threw |-> FALSE, att |-> {}]
    ELSE LET c == Head(list) IN
         IF Raises(c, c \in thr) /\ ~guarded
         THEN [w |-> w, threw |-> TRUE, att |-> {c}]
         ELSE LET rest == Fanout(Tail(list), frame, Delivered(w, c, frame),
                                 thr, guarded)
              IN  [rest EXCEPT !.att = @ \cup {c}]

\* list.filter(x => x !== c), and Set.delete(c) on an insertion-ordered Set.
Without(list, c) == SelectSeq(list, LAMBDA x : x # c)

\* Set.add(c): appended unless already a member.
SetAdd(list, c) ==
    IF \E i \in 1 .. Len(list) : list[i] = c THEN list ELSE Append(list, c)

Closed(S) == {c \in S : phase[c] = "closed"}

\* The flight a request names: query first, then body, then "default".
ReqFlight(q, body) == ToStr(OrElse(OrElse(q, body.flight), Str("default")))

\* What a handler that stores a sample leaves behind.
Stored(key, obj, flight, out, okStatus) ==
    /\ latest' = [latest EXCEPT ![key] = <<obj>>]
    /\ wrote' = out.w
    /\ lateWrites' = lateWrites \cup Closed(out.att)
    /\ ingestLog' = Append(ingestLog,
                           [flight |-> flight, key |-> key, json |-> Stringify(obj)])
    /\ lastResp' = IF out.threw THEN 500 ELSE okStatus

Rejected(status) ==
    /\ lastResp' = status
    /\ UNCHANGED <<latest, wrote, lateWrites, ingestLog>>

NoFanout == [w |-> wrote, threw |-> FALSE, att |-> {}]

\* ------------------------------------------------- "global": server.js:1-174
StreamGlobal(c, q) ==
    /\ wrote' = [wrote EXCEPT ![c] =
                    IF latest[GlobalKey] # <<>>
                    THEN Append(@, DataFrame(Stringify(latest[GlobalKey][1])))
                    ELSE @]
    /\ timer' = [timer EXCEPT ![c] = TRUE]
    /\ clients' = [clients EXCEPT ![GlobalKey] = Append(@, c)]
    /\ UNCHANGED track

CloseGlobal(c) ==
    /\ timer' = [timer EXCEPT ![c] = FALSE]
    /\ clients' = [clients EXCEPT ![GlobalKey] = Without(@, c)]

TickGlobal(c, throws) ==
    /\ wrote' = Delivered(wrote, c, Comment(": ping"))
    /\ UNCHANGED <<crashed, track>>

IngestGlobal(q, body, tok, now, thr) ==
    IF ~Truthy(env) \/ tok # env
    THEN Rejected(401)
    ELSE LET lastData == [body EXCEPT !.serverTs = Num(now)]
             payload  == DataFrame(Stringify(lastData))
         IN  Stored(GlobalKey, lastData, ReqFlight(q, body),
                    Fanout(clients[GlobalKey], payload, wrote, thr, TRUE), 200)

\* ------------------------------------------------- "bare": unnamed/part_000
StreamBare(c, q) ==
    /\ wrote' = [wrote EXCEPT ![c] =
                    IF latest[GlobalKey] # <<>>
                    THEN Append(@, DataFrame(Stringify(latest[GlobalKey][1])))
                    ELSE @]
    /\ clients' = [clients EXCEPT ![GlobalKey] = Append(@, c)]
    /\ UNCHANGED <<timer, track>>

CloseBare(c) ==
    /\ clients' = [clients EXCEPT ![GlobalKey] = Without(@, c)]
    /\ UNCHANGED timer

IngestBare(q, body, tok, now, thr) ==
    IF ~Truthy(env) \/ tok # env
    THEN Rejected(401)
    ELSE LET lastData == [body EXCEPT !.serverTs = Num(now)]
             payload  == DataFrame(Stringify(lastData))
         IN  Stored(GlobalKey, lastData, ReqFlight(q, body),
                    Fanout(clients[GlobalKey], payload, wrote, thr, FALSE), 200)

\* ------------------------------------------------ "push": server.js:176-254
TOKEN == OrElse(env, PushFallback)

sendSSE(w, c, jsonString) == Delivered(w, c, DataFrame(jsonString))

\* StreamPush with the replay left out.
StreamPushNoReplay(c, q) ==
    LET flight == ToStr(OrElse(q, Str("default")))
    IN  /\ timer' = [timer EXCEPT ![c] = TRUE]
        /\ wrote' = Delivered(wrote, c, Comment(": ok"))
        /\ clients' = [clients EXCEPT ![flight] = SetAdd(@, c)]
        /\ UNCHANGED track

\* StreamPush with another name for the channel of a request without flight.
StreamPushOtherDefault(c, q) ==
    LET flight == ToStr(OrElse(q, Str("B")))
        hello  == Delivered(wrote, c, Comment(": ok"))
        last   == latest[flight]
    IN  /\ timer' = [timer EXCEPT ![c] = TRUE]
        /\ wrote' = IF last # <<>> THEN sendSSE(hello, c, last[1]) ELSE hello
        /\ clients' = [clients EXCEPT ![flight] = SetAdd(@, c)]
        /\ UNCHANGED track

\* StreamPush replaying only while the flight has other subscribers.
StreamPushReplayIfBusy(c, q) ==
    LET flight == ToStr(OrElse(q, Str("default")))
        hello  == Delivered(wrote, c, Comment(": ok"))
        last   == IF clients[flight] = <<>> THEN <<>> ELSE latest[flight]
    IN  /\ timer' = [timer EXCEPT ![c] = TRUE]
        /\ wrote' = IF last # <<>> THEN sendSSE(hello, c, last[1]) ELSE hello
        /\ clients' = [clients EXCEPT ![flight] = SetAdd(@, c)]
        /\ UNCHANGED track

StreamPush(c, q) ==
    LET flight == ToStr(OrElse(q, Str("default")))
        hello  == Delivered(wrote, c, Comment(": ok"))
        last   == latest[flight]
    IN  /\ timer' = [timer EXCEPT ![c] = TRUE]
        /\ wrote' = IF last # <<>> THEN sendSSE(hello, c, last[1]) ELSE hello
        /\ clients' = [clients EXCEPT ![flight] = SetAdd(@, c)]
        /\ UNCHANGED track

\* ClosePush with clearInterval left out.
ClosePushKeepTimer(c) ==
    /\ clients' = [clients EXCEPT ![cflight[c]] = Without(@, c)]
    /\ UNCHANGED timer

\* ClosePush emptying the whole subscriber set of the flight.
ClosePushWholeSet(c) ==
    /\ timer' = [timer EXCEPT ![c] = FALSE]
    /\ clients' = [clients EXCEPT ![cflight[c]] = <<>>]

ClosePush(c) ==
    /\ timer' = [timer EXCEPT ![c] = FALSE]
    /\ clients' = [clients EXCEPT ![cflight[c]] = Without(@, c)]

TickPush(c, throws) ==
    /\ wrote' = Delivered(wrote, c, Comment(": keepalive"))
    /\ crashed' = Raises(c, throws)
    /\ UNCHANGED track

\* IngestPush with the token looked at only after the sample went out.
IngestPushLateCheck(q, body, tok, now, thr) ==
    LET flight == ReqFlight(q, body)
        sample == [body EXCEPT !.serverTs = Nullish(body.serverTs, Num(now))]
        json   == Stringify(sample)
        out    == Fanout(clients[flight], DataFrame(json), wrote, thr, FALSE)
    IN  /\ latest' = [latest EXCEPT ![flight] = <<json>>]
        /\ wrote' = out.w
        /\ lateWrites' = lateWrites \cup Closed(out.att)
        /\ ingestLog' = Append(ingestLog,
                               [flight |-> flight, key |-> flight, json |-> json])
        /\ lastResp' = IF tok # TOKEN THEN 401
                        ELSE IF out.threw THEN 500 ELSE 204

\* IngestPush filling the fields the body lacks from the previous sample.
IngestPushMerge(q, body, tok, now, thr) ==
    IF tok # TOKEN
    THEN Rejected(401)
    ELSE LET flight == ReqFlight(q, body)
             prev   == IF latest[flight] = <<>> THEN EmptyObj ELSE latest[flight][1]
             merged == [f \in Fields |-> IF body[f] = Undef THEN prev[f] ELSE body[f]]
             sample == [merged EXCEPT !.serverTs = Nullish(merged.serverTs, Num(now))]
             json   == Stringify(sample)
         IN  Stored(flight, json, flight,
                    Fanout(clients[flight], DataFrame(json), wrote, thr, FALSE),
                    204)

IngestPush(q, body, tok, now, thr) ==
    IF tok # TOKEN
    THEN Rejected(401)
    ELSE LET flight == ReqFlight(q, body)
             sample == [body EXCEPT !.serverTs = Nullish(body.serverTs, Num(now))]
             json   == Stringify(sample)
         IN  Stored(flight, json, flight,
                    Fanout(clients[flight], DataFrame(json), wrote, thr, FALSE),
                    204)

\* ---------------- "poll": server.mjs:310-358, "poll2": unnamed/part_001:385-432
INGEST_TOKEN == OrElse(env, PollFallback)

\* IngestPoll looking at the coordinates before the token.
IngestPollValidateFirst(q, body, tok, now, thr) ==
    LET flight == ToStr(OrElse(q, Str("default")))
        d == body
    IN  IF ~TypeofNumber(d.lat) \/ ~TypeofNumber(d.lon)
        THEN Rejected(400)
        ELSE IF tok # INGEST_TOKEN
        THEN Rejected(403)
        ELSE LET datum ==
                   [flight   |-> Str(flight),
                    lat      |-> ToNumber(d.lat),
                    lon      |-> ToNumber(d.lon),
                    alt_ft   |-> ToNumber(OrElse(d.alt_ft, Num(0))),
                    hdg_deg  |-> ToNumber(OrElse(d.hdg_deg, Num(0))),
                    gs_kts   |-> ToNumber(OrElse(d.gs_kts, Num(0))),
                    vs_fpm   |-> ToNumber(OrElse(d.vs_fpm, Num(0))),
                    tas_kts  |-> ToNumber(OrElse(d.tas_kts, Num(0))),
                    serverTs |-> ToNumber(OrElse(d.serverTs, Num(now)))]
             IN  Stored(flight, datum, ReqFlight(q, body), NoFanout, 200)

IngestPoll(q, body, tok, now, thr) ==
    LET flight == ToStr(OrElse(q, Str("default")))
        d == body
    IN  IF tok # INGEST_TOKEN
        THEN Rejected(403)
        ELSE IF ~TypeofNumber(d.lat) \/ ~TypeofNumber(d.lon)
        THEN Rejected(400)
        ELSE LET datum ==
                   [flight   |-> Str(flight),
                    lat      |-> ToNumber(d.lat),
                    lon      |-> ToNumber(d.lon),
                    alt_ft   |-> ToNumber(OrElse(d.alt_ft, Num(0))),
                    hdg_deg  |-> ToNumber(OrElse(d.hdg_deg, Num(0))),
                    gs_kts   |-> ToNumber(OrElse(d.gs_kts, Num(0))),
                    vs_fpm   |-> ToNumber(OrElse(d.vs_fpm, Num(0))),
                    tas_kts  |-> ToNumber(OrElse(d.tas_kts, Num(0))),
                    serverTs |-> ToNumber(OrElse(d.serverTs, Num(now)))]
             IN  Stored(flight, datum, ReqFlight(q, body), NoFanout, 200)

StreamPoll(c, q) ==
    LET flight == ToStr(OrElse(q, Str("default")))
        now    == latest[flight]
    IN  /\ wrote' = IF now # <<>>
                    THEN Delivered(wrote, c, DataFrame(Stringify(now[1])))
                    ELSE wrote
        /\ timer' = [timer EXCEPT ![c] = TRUE]
        /\ UNCHANGED <<clients, track>>

ClosePoll(c) ==
    /\ timer' = [timer EXCEPT ![c] = FALSE]
    /\ UNCHANGED clients

\* TickPoll writing the ping whether or not the flight has a sample.
TickPollPingOnly(c, throws) ==
    /\ wrote' = Delivered(wrote, c, Comment(": ping"))
    /\ crashed' = Raises(c, throws)
    /\ UNCHANGED track

TickPoll(c, throws) ==
    LET d == latest[cflight[c]] IN
    /\ wrote' = IF d # <<>>
                THEN Delivered(wrote, c, DataFrame(Stringify(d[1])))
                ELSE Delivered(wrote, c, Comment(": ping"))
    /\ crashed' = Raises(c, throws)
    /\ UNCHANGED track

TickPoll2(c, throws) ==
    LET d == latest[cflight[c]] IN
    /\ wrote' = IF d # <<>>
                THEN Delivered(wrote, c, DataFrame(Stringify(d[1])))
                ELSE wrote
    /\ crashed' = (d # <<>> /\ Raises(c, throws))
    /\ UNCHANGED track

\* ------------------------------------------- "stub": unnamed/part_001:174-213
\* The stub moves a made-up aircraft; it has no POST /ingest route, so no
\* ingest handler ever runs there.  Positions
\* are kept in hundredths of a degree, so that lon += 0.01 is lon + 1.
\* Math.random() is a choice from a few values of its range.
StubStarts == {[lat |-> 3300, lon |-> -9740, alt |-> 10000],
               [lat |-> 3320, lon |-> -9720, alt |-> 11000]}
StubClimbs == {-100, 50}

Max(a, b) == IF a >= b THEN a ELSE b

StreamStub(c, q, start) ==
    /\ track' = [track EXCEPT ![c] = start]
    /\ timer' = [timer EXCEPT ![c] = TRUE]
    /\ UNCHANGED <<wrote, clients>>

tick(c, throws, climb, now) ==
    LET lon == track[c].lon + 1
        alt == track[c].alt + climb
        d   == [flight   |-> Str(cflight[c]),
                lat      |-> Num(track[c].lat),
                lon      |-> Num(lon),
                alt_ft   |-> Num(Max(0, alt)),
                hdg_deg  |-> Num(90),
                gs_kts   |-> Num(350),
                vs_fpm   |-> Num(climb * 3),
                tas_kts  |-> Num(360),
                serverTs |-> Num(now)]
    IN  /\ track' = [track EXCEPT ![c] = [@ EXCEPT !.lon = lon, !.alt = alt]]
        /\ wrote' = Delivered(wrote, c, DataFrame(Stringify(d)))
        /\ crashed' = Raises(c, throws)

\* ------------------------------------------------------------ actions
HasRegistry == variant \in {"global", "push", "bare"}

\* GET /stream?flight=q on a fresh connection c.
Stream(c, q) ==
    /\ ~crashed
    /\ phase[c] = "new"
    /\ \A b \in Conns : b < c => phase[b] # "new"
    /\ phase' = [phase EXCEPT ![c] = "open"]
    /\ cflight' = [cflight EXCEPT ![c] = ToStr(OrElse(q, Str("default")))]
    /\ joinedAt' = [joinedAt EXCEPT ![c] = Len(ingestLog)]
    /\ CASE variant = "global" -> StreamGlobal(c, q)
         [] variant = "bare"   -> StreamBare(c, q)
         [] variant = "push"   -> StreamPush(c, q)
         [] variant = "stub"   -> \E start \in StubStarts : StreamStub(c, q, start)
         [] OTHER              -> StreamPoll(c, q)
    /\ UNCHANGED <<variant, env, crashed, latest, closes, sink, lastReq,
                   lastResp, ingestLog, lateWrites, nIngest, nTicks>>

\* The remote end of c goes away; the close notification is still to come.
Disconnect(c) ==
    /\ ~crashed
    /\ phase[c] = "open"
    /\ sink[c] = "up"
    /\ sink' = [sink EXCEPT ![c] = "broken"]
    /\ UNCHANGED <<variant, env, crashed, clients, latest, phase, closes,
                   cflight, timer, wrote, track, lastReq, lastResp, ingestLog,
                   joinedAt, lateWrites, nIngest, nTicks>>

\* req.on("close") of c runs: the first notification, or a repeated one.
Close(c) ==
    /\ ~crashed
    /\ phase[c] \in {"open", "closed"}
    /\ sink[c] = "broken"
    /\ closes[c] < MaxCloses
    /\ closes' = [closes EXCEPT ![c] = @ + 1]
    /\ phase' = [phase EXCEPT ![c] = "closed"]
    /\ CASE variant = "global" -> CloseGlobal(c)
         [] variant = "bare"   -> CloseBare(c)
         [] variant = "push"   -> ClosePush(c)
         [] OTHER              -> ClosePoll(c)
    /\ UNCHANGED <<variant, env, crashed, latest, cflight, sink, wrote, track,
                   lastReq, lastResp, ingestLog, joinedAt, lateWrites, nIngest,
                   nTicks>>

\* The interval timer of c fires.
Tick(c) ==
    /\ ~crashed
    /\ timer[c]
    /\ nTicks < MaxTicks
    /\ nTicks' = nTicks + 1
    /\ lateWrites' = lateWrites \cup Closed({c})
    /\ \E throws \in (IF sink[c] = "broken" THEN BOOLEAN ELSE {FALSE}) :
         CASE variant = "global" -> TickGlobal(c, throws)
           [] variant = "push"   -> TickPush(c, throws)
           [] variant = "poll"   -> TickPoll(c, throws)
           [] variant = "poll2"  -> TickPoll2(c, throws)
           [] OTHER              -> \E climb \in StubClimbs, now \in Times :
                                        tick(c, throws, climb, now)
    /\ UNCHANGED <<variant, env, clients, latest, phase, closes, cflight, sink,
                   timer, lastReq, lastResp, ingestLog, joinedAt, nIngest>>

\* The registered connections whose remote end is gone: a write to one of them
\* is lost, and may raise.
Broken == {c \in Conns : phase[c] = "open" /\ sink[c] = "broken"}

\* POST /ingest?flight=q with header x-ingest-token: tok and JSON body.
Ingest(q, body, tok, now) ==
    /\ ~crashed
    /\ variant # "stub"
    /\ nIngest < MaxIngests
    /\ nIngest' = nIngest + 1
    /\ lastReq' = [q |-> q, body |-> body, tok |-> tok, now |-> now]
    /\ \E thr \in (IF variant \in {"push", "bare"} THEN SUBSET Broken ELSE {{}}) :
         CASE variant = "global" -> IngestGlobal(q, body, tok, now, thr)
           [] variant = "bare"   -> IngestBare(q, body, tok, now, thr)
           [] variant = "push"   -> IngestPush(q, body, tok, now, thr)
           [] OTHER              -> IngestPoll(q, body, tok, now, thr)
    /\ UNCHANGED <<variant, env, crashed, clients, phase, closes, cflight, sink,
                   timer, track, joinedAt, nTicks>>

\* Traffic: connections come and go around ingests of valid samples, with
\* INGEST_TOKEN configured.
Next ==
    \/ \E c \in Conns, q \in Queries : Stream(c, q)
    \/ \E c \in Conns : Disconnect(c)
    \/ \E c \in Conns : Close(c)
    \/ \E c \in Conns : Tick(c)
    \/ \E q \in Queries, body \in TrafficBodies, tok \in TrafficTokens,
          now \in Times : Ingest(q, body, tok, now)

Configured == Init /\ env = EnvSecret

Spec == Configured /\ [][Next]_vars

\* One deployment at a time.
InitGlobal == Configured /\ variant = "global"
InitPush   == Configured /\ variant = "push"
InitPoll   == Configured /\ variant = "poll"
SpecGlobal == InitGlobal /\ [][Next]_vars
SpecPush   == InitPush /\ [][Next]_vars
SpecPoll   == InitPoll /\ [][Next]_vars

\* Payloads: every body and token against every configuration, watched by
\* one connection that stays.
NextPayload ==
    \/ \E q \in Queries : Stream(1, q)
    \/ \E q \in Queries, body \in Bodies, tok \in Tokens, now \in Times :
          Ingest(q, body, tok, now)

SpecPayload == Init /\ [][NextPayload]_vars

InitPayloadPush == Init /\ variant = "push"
InitPayloadPoll == Init /\ variant = "poll"
SpecPayloadPush == InitPayloadPush /\ [][NextPayload]_vars
SpecPayloadPoll == InitPayloadPoll /\ [][NextPayload]_vars


\* ------------------------------------------------------------- claims
\* What the properties below read off a state.

\* The samples connection c was sent, in order: the JSON of its data frames.
Samples(c) ==
    LET d == SelectSeq(wrote[c], LAMBDA f : f.t = "data")
    IN  [i \in 1 .. Len(d) |-> d[i].j]

Jsons(log) == [i \in 1 .. Len(log) |-> log[i].json]

ForFlight(f, log) == SelectSeq(log, LAMBDA e : e.flight = f)

\* The ingests for c's flight before and after its stream handler ran.
Before(c) == ForFlight(cflight[c], SubSeq(ingestLog, 1, joinedAt[c]))
After(c)  == ForFlight(cflight[c],
                       SubSeq(ingestLog, joinedAt[c] + 1, Len(ingestLog)))

\* The last sample of c's flight when it subscribed, if any.
Replay(c) ==
    IF Before(c) = <<>> THEN <<>> ELSE <<Before(c)[Len(Before(c))].json>>

Expected(c) == Replay(c) \o Jsons(After(c))

IsPrefix(a, b) == Len(a) <= Len(b) /\ SubSeq(b, 1, Len(a)) = a

Occurs(x, seq) == \E i \in 1 .. Len(seq) : seq[i] = x

\* c subscribed and is still there.
StaysConnected(c) == phase[c] = "open" /\ sink[c] = "up" /\ ~crashed

Opened == {c \in Conns : phase[c] # "new"}

\* A step that is an ingest request.
IngestStep == nIngest' = nIngest + 1

\* lat and lon are both present, finite numbers.
FiniteCoords(body) == body.lat.k = "num" /\ body.lon.k = "num"

\* A secret is configured and the request carries it.
RightToken(req) == env # Undef /\ req.tok = env

Success == {200, 204}

\* C1: a subscriber that stays connected is never sent anything but the last
\* sample present when it subscribed followed by the samples ingested for its
\* flight since, in ingest order: what it has been sent so far is a prefix of
\* that sequence (no duplicate, no omission, no reordering).
C1_ExactSequence ==
    \A c \in Conns : StaysConnected(c) => IsPrefix(Samples(c), Expected(c))

\* C2: for a subscriber that connected before any ingest and is still
\* connected, whenever a sample ingested for its flight has been sent to it,
\* the (different) sample ingested for that flight just before has been sent
\* to it earlier.
C2_BothInOrder ==
    \A c \in Conns :
        StaysConnected(c) /\ joinedAt[c] = 0 =>
            LET mine == Jsons(After(c))
                got  == Samples(c)
            IN  \A j \in 2 .. Len(mine) :
                    mine[j] # mine[j - 1] /\ Occurs(mine[j], got) =>
                        \E p1, p2 \in 1 .. Len(got) :
                            /\ p1 < p2
                            /\ got[p1] = mine[j - 1]
                            /\ got[p2] = mine[j]

\* C3: a subscriber that connected when a sample had been ingested for its
\* flight has that sample as its first data event, so a later sample is never
\* its first.
C3_ReplayFirst ==
    \A c \in Opened :
        Before(c) # <<>> =>
            /\ Samples(c) # <<>>
            /\ Samples(c)[1] = Replay(c)[1]

\* C4: where subscribers are registered (global, push, bare), one stream
\* connect interleaved with ingests for its flight is sent exactly the replay
\* followed by every later sample once: nothing falls between reading the last
\* sample and registering, nothing is sent twice.
C4_AtomicSubscribe ==
    HasRegistry =>
        \A c \in Conns :
            /\ StaysConnected(c)
            /\ Opened = {c}
            /\ \A i \in 1 .. Len(ingestLog) : ingestLog[i].flight = cflight[c]
            => Samples(c) = Expected(c)

C4_Witness ==
    /\ variant = "push"
    /\ StaysConnected(1)
    /\ Opened = {1}
    /\ joinedAt[1] = 1
    /\ Len(ingestLog) = 2
    /\ \A i \in 1 .. 2 : ingestLog[i].flight = cflight[1]
    /\ ingestLog[1].json # ingestLog[2].json
    /\ Samples(1) = <<ingestLog[1].json, ingestLog[2].json>>

\* C5: a subscriber that connected when nothing had been ingested for its
\* flight is sent no sample by the connect, and the first sample it is ever
\* sent is the first one ingested for its flight afterwards.
C5_FirstIsFirstIngested ==
    \A c \in Opened :
        Before(c) = <<>> /\ Samples(c) # <<>> =>
            /\ After(c) # <<>>
            /\ Samples(c)[1] = After(c)[1].json

\* C6: every sample sent to a subscriber was ingested for the flight it
\* subscribed to.
C6_Isolation ==
    \A c \in Opened :
        \A i \in 1 .. Len(Samples(c)) :
            \E k \in 1 .. Len(ingestLog) :
                /\ ingestLog[k].flight = cflight[c]
                /\ ingestLog[k].json = Samples(c)[i]

\* C7: with a secret configured, an ingest whose token is not that secret
\* (or is absent) is answered 401 or 403 and changes no last sample and no
\* subscriber's stream.
C7_WrongTokenNoEffect ==
    [][ (IngestStep /\ env # Undef /\ lastReq'.tok # env) =>
            /\ lastResp' \in {401, 403}
            /\ latest' = latest
            /\ wrote' = wrote
            /\ ingestLog' = ingestLog ]_vars

C7_Witness ==
    /\ env # Undef
    /\ lastReq.tok = Undef
    /\ lastResp \in {401, 403}
    /\ ingestLog # <<>>
    /\ phase[1] = "open"
    /\ Samples(1) # <<>>

\* C8: an ingest with the right token whose lat or lon is missing or not a
\* finite number is answered 400, changes no last sample and is sent to nobody.
C8_BadCoordsRejected ==
    [][ (IngestStep /\ RightToken(lastReq') /\ ~FiniteCoords(lastReq'.body)) =>
            /\ lastResp' = 400
            /\ latest' = latest
            /\ wrote' = wrote ]_vars

\* C9: once the close handler of a connection has run, nothing is written to
\* it, it has no timer and no registration left, and a repeated close
\* notification changes nothing.
C9_ClosedIsSilent ==
    [][ \A c \in Conns :
          phase'[c] = "closed" =>
            /\ c \notin lateWrites'
            /\ ~timer'[c]
            /\ \A k \in ChanKeys : ~Occurs(c, clients'[k])
            /\ (phase[c] = "closed" =>
                   /\ wrote'[c] = wrote[c]
                   /\ (closes'[c] # closes[c] =>
                          UNCHANGED <<clients, latest, timer, wrote, crashed,
                                      phase, sink, lateWrites>>)) ]_vars

C9_Witness ==
    /\ variant = "push"
    /\ closes[1] = 2
    /\ phase[1] = "closed"
    /\ StaysConnected(2)
    /\ cflight[1] = cflight[2]
    /\ joinedAt[1] = 0
    /\ Len(ingestLog) = 2
    /\ Len(Samples(2)) > Len(Samples(1))
    /\ nTicks = 1

\* C10: an ingest with the right token and finite coordinates is answered
\* with success, whatever happens to the writes to its subscribers.
C10_ValidAlwaysSucceeds ==
    [][ (IngestStep /\ RightToken(lastReq') /\ FiniteCoords(lastReq'.body)) =>
            lastResp' \in Success ]_vars

\* The entry an ingest step appended to the log, read in the step's new state.
NewEntry == ingestLog'[Len(ingestLog')]

\* A step in which an ingest stored a sample.
StoreStep == IngestStep /\ ingestLog' # ingestLog

\* C11: when an ingest broadcasts a sample, every subscriber registered for
\* its channel whose connection is up is written that sample, also when the
\* write to another subscriber of the channel fails, wherever that one sits in
\* the iteration.
C11_FailureIsolated ==
    [][ StoreStep =>
          \A c \in Conns :
              Occurs(c, clients[NewEntry.key]) /\ sink[c] = "up" =>
                  wrote'[c] = Append(wrote[c], DataFrame(NewEntry.json)) ]_vars

\* C12: the serverTs of the sample an ingest stores is the one the body
\* carries when it carries one (0 included), and the time of receipt when it
\* carries none.
C12_ClientTsKept ==
    [][ StoreStep =>
          NewEntry.json.serverTs =
              IF lastReq'.body.serverTs # Undef
              THEN lastReq'.body.serverTs
              ELSE Num(lastReq'.now) ]_vars

\* The five optional telemetry fields of a sample.
Optional == {"alt_ft", "hdg_deg", "gs_kts", "vs_fpm", "tas_kts"}

\* What an optional field may hold after a body carried v: v itself when it is
\* a finite number, 0 when it is absent or no number; a string that spells a
\* number may count as either.
OptionalOf(v) ==
    IF v.k = "num" THEN {v}
    ELSE IF v.k = "str" /\ StrToNum(v.s).k = "num" THEN {Num(0), StrToNum(v.s)}
    ELSE {Num(0)}

\* C13: in the sample an ingest stores, each of alt_ft, hdg_deg, gs_kts,
\* vs_fpm and tas_kts is a number: the supplied one, or 0 when the body has
\* none or has something that is no number.
C13_OptionalDefaults ==
    [][ StoreStep =>
          \A f \in Optional :
              latest'[NewEntry.key][1][f] \in OptionalOf(lastReq'.body[f]) ]_vars

\* A request that names no flight, in its query or in its body.
OmitsFlight(req) == req.q = Undef /\ req.body.flight = Undef

\* The deployments that keep one last sample per flight.
PerFlight == variant \in {"push", "poll", "poll2"}

\* The last sample of the "default" channel, if any: where samples are kept
\* per flight the last one ingested without a flight, and where one sample is
\* kept for all flights that one when it was ingested without a flight.
DefaultLast ==
    LET log == IF PerFlight THEN ForFlight("default", ingestLog) ELSE ingestLog
    IN  IF log = <<>> \/ log[Len(log)].flight # "default"
        THEN <<>>
        ELSE <<log[Len(log)].json>>

\* C14: requests that name no flight meet in the channel "default".  A sample
\* ingested without a flight is written to every connected subscriber that
\* asked for no flight (by the ingest where subscribers are registered, by the
\* subscriber's timer where streams poll), and a subscriber that connects
\* without a flight is replayed the last such sample.
C14_DefaultChannel ==
    [][ \A c \in Conns :
          /\ ( /\ StoreStep
               /\ lastResp' \in Success
               /\ OmitsFlight(lastReq')
               /\ HasRegistry
               /\ phase[c] = "open" /\ sink[c] = "up" /\ cflight[c] = "default" )
             => wrote'[c] = Append(wrote[c], DataFrame(NewEntry.json))
          /\ ( /\ phase[c] = "new" /\ phase'[c] = "open"
               /\ cflight'[c] = "default"
               /\ DefaultLast # <<>> )
             => Samples(c)' = DefaultLast
          /\ ( /\ nTicks' # nTicks
               /\ variant \in {"poll", "poll2"}
               /\ wrote'[c] # wrote[c]
               /\ cflight[c] = "default"
               /\ DefaultLast # <<>> )
             => wrote'[c] = Append(wrote[c], DataFrame(DefaultLast[1])) ]_vars

C14_Witness ==
    /\ variant = "push"
    /\ StaysConnected(1) /\ StaysConnected(2)
    /\ cflight[1] = "default" /\ cflight[2] = "default"
    /\ joinedAt[1] = 0 /\ joinedAt[2] = 1
    /\ Len(ingestLog) = 1
    /\ OmitsFlight(lastReq)
    /\ ingestLog[1].key = "default"
    /\ Samples(1) = <<ingestLog[1].json>>
    /\ Samples(2) = <<ingestLog[1].json>>

\* C15: a subscriber whose remote end is there stays open and registered, and
\* the server keeps serving it, through every ingest, broadcast, write failure
\* and timer firing; a connection leaves the open state only after its remote
\* end has gone.
C15_OnlyCloseUnregisters ==
    [][ \A c \in Conns :
          /\ (phase[c] = "open" /\ phase'[c] # "open") => sink[c] = "broken"
          /\ (phase[c] = "open" /\ sink[c] = "up") =>
                /\ phase'[c] = "open"
                /\ \A k \in ChanKeys : Occurs(c, clients[k]) => Occurs(c, clients'[k])
                /\ ~crashed' ]_vars

\* A step in which the close handler of c ran.
CloseStep(c) == closes'[c] = closes[c] + 1

\* C16: the close handler of a connection stops that connection's timer and
\* removes that connection's registration, and touches no other timer and no
\* other registration; a closed connection has no active timer, so none fires
\* for it again.
C16_CloseExactlyOne ==
    [][ \A c \in Conns :
          /\ CloseStep(c) =>
                /\ timer' = [timer EXCEPT ![c] = FALSE]
                /\ \A k \in ChanKeys : clients'[k] = Without(clients[k], c)
          /\ phase'[c] = "closed" => ~timer'[c]
          /\ (phase[c] = "closed" /\ nTicks' # nTicks) => wrote'[c] = wrote[c] ]_vars

C16_Witness ==
    /\ variant = "push"
    /\ phase[1] = "closed"
    /\ closes[1] = 1
    /\ StaysConnected(2)
    /\ cflight[1] = cflight[2]
    /\ timer[2]
    /\ clients[cflight[2]] = <<2>>
    /\ nTicks = 1
    /\ Len(wrote[2]) = 2

\* The channel a connection reads its replay from: its flight, or the one
\* channel of the deployments that keep a single last sample.
KeyOf(c) == IF variant \in {"global", "bare"} THEN GlobalKey ELSE cflight[c]

\* The last sample the log holds for channel k, if any.
LastOfKey(k, log) ==
    LET l == SelectSeq(log, LAMBDA e : e.key = k)
    IN  IF l = <<>> THEN <<>> ELSE <<l[Len(l)].json>>

\* C17: the last sample of a channel outlives its subscribers.  In every
\* state, whatever connects and closes have happened, each channel still holds
\* the sample most recently ingested into it, and every subscriber that
\* connected after a sample had been ingested for its flight was replayed the
\* sample its channel held at that moment.
C17_RetainedAcrossChurn ==
    /\ \A k \in ChanKeys :
          LET last == LastOfKey(k, ingestLog)
          IN  IF last = <<>>
              THEN latest[k] = <<>>
              ELSE latest[k] # <<>> /\ Stringify(latest[k][1]) = last[1]
    /\ \A c \in Opened :
          Before(c) # <<>> =>
              /\ Samples(c) # <<>>
              /\ <<Samples(c)[1]>> =
                     LastOfKey(KeyOf(c), SubSeq(ingestLog, 1, joinedAt[c]))

C17_Witness ==
    /\ variant = "push"
    /\ phase[1] = "closed"
    /\ \A k \in ChanKeys : clients[k] \in {<<>>, <<2>>}
    /\ Len(ingestLog) = 2
    /\ ingestLog[1].json # ingestLog[2].json
    /\ \A i \in 1 .. 2 : ingestLog[i].flight = cflight[2]
    /\ cflight[1] = cflight[2]
    /\ joinedAt[1] = 1
    /\ Samples(1) = <<ingestLog[1].json>>
    /\ joinedAt[2] = 2
    /\ StaysConnected(2)
    /\ Samples(2) = <<ingestLog[2].json>>

\* The values field f of a sample can take when the sample is built from the
\* request alone: the body's own value, that value made a number with 0 for a
\* missing one, and, for the two fields the server fills in, the time of
\* receipt and the flight the request names.
FromCall(req, f) ==
    {req.body[f], ToNumber(OrElse(req.body[f], Num(0)))}
        \cup (IF f = "serverTs" THEN {Num(req.now)} ELSE {})
        \cup (IF f = "flight"
              THEN {Str(ReqFlight(req.q, req.body)),
                    Str(ToStr(OrElse(req.q, Str("default"))))}
              ELSE {})

\* C18: after a successful ingest the last sample of its channel is the
\* sample of that request and nothing else: every field comes from the request
\* (or the server's clock), none from the sample held before, also when the new
\* serverTs is the older one; the other channels keep theirs.
C18_FullReplacement ==
    [][ (StoreStep /\ lastResp' \in Success) =>
          /\ latest'[NewEntry.key] # <<>>
          /\ Stringify(latest'[NewEntry.key][1]) = NewEntry.json
          /\ \A f \in Fields :
                NewEntry.json[f] \in {JsonValue(v) : v \in FromCall(lastReq', f)}
          /\ \A k \in ChanKeys \ {NewEntry.key} : latest'[k] = latest[k] ]_vars

C18_Witness ==
    /\ variant = "push"
    /\ lastResp = 204
    /\ Len(ingestLog) = 2
    /\ ingestLog[1].key = "A" /\ ingestLog[2].key = "A"
    /\ ingestLog[1].json.gs_kts = Str("12")
    /\ ingestLog[1].json.serverTs = Num(5)
    /\ latest["A"] = <<ingestLog[2].json>>
    /\ latest["A"][1].gs_kts = Undef
    /\ latest["A"][1].serverTs = Num(0)

\* C19: a successful ingest stores its sample and broadcasts that stored
\* sample once: every connected subscriber of the flight is written exactly
\* one more frame, the channel's new last sample, so the sample a broadcast
\* wrote last equals the one retained.
C19_UpdateThenBroadcast ==
    [][ (StoreStep /\ lastResp' \in Success) =>
          \A c \in Conns :
              (phase[c] = "open" /\ sink[c] = "up" /\ cflight[c] = NewEntry.flight)
                  => wrote'[c] = Append(wrote[c],
                         DataFrame(Stringify(latest'[NewEntry.key][1]))) ]_vars

\* C20: a firing of a connection's interval timer writes no sample: the
\* samples every subscriber has been sent are the same before and after it.
C20_TimerWritesNoSample ==
    [][ nTicks' # nTicks => \A c \in Conns : Samples(c)' = Samples(c) ]_vars

\* ---------------------------------------------------- timers that keep firing
\* setInterval fires for as long as the interval is not cleared.  Tick counts
\* its firings up to MaxTicks; Refire is a firing past that count.  A firing
\* that repeats the frame last written to the connection, or writes nothing,
\* shows the subscriber nothing new and is left out, which keeps the frames on
\* record finite.
Refire(c) ==
    /\ ~crashed
    /\ timer[c]
    /\ sink[c] = "up"
    /\ variant \in {"global", "push", "poll", "poll2"}
    /\ CASE variant = "global" -> TickGlobal(c, FALSE)
         [] variant = "push"   -> TickPush(c, FALSE)
         [] variant = "poll"   -> TickPoll(c, FALSE)
         [] OTHER              -> TickPoll2(c, FALSE)
    /\ Len(wrote'[c]) = Len(wrote[c]) + 1
    /\ IF wrote[c] = <<>> THEN TRUE
       ELSE wrote'[c][Len(wrote'[c])] # wrote[c][Len(wrote[c])]
    /\ UNCHANGED <<variant, env, clients, latest, phase, closes, cflight, sink,
                   timer, lastReq, lastResp, ingestLog, joinedAt, lateWrites,
                   nIngest, nTicks>>

NextLive ==
    \/ Next
    \/ \E c \in Conns : Refire(c)

\* The event loop runs every timer that is due.
TimersFire == \A c \in Conns : WF_vars(Tick(c)) /\ WF_vars(Refire(c))

InitPoll2 == Configured /\ variant = "poll2"
SpecLivePoll2 == InitPoll2 /\ [][NextLive]_vars /\ TimersFire

\* The keepalive frames connection c was sent.
Keepalives(c) ==
    SelectSeq(wrote[c], LAMBDA f : f.t = "comment" /\ f.s \in {": ping", ": keepalive"})

\* C21: a subscriber that is open is eventually sent a keepalive frame, unless
\* it stops being open, its client goes away, or a sample is ingested for its
\* flight.
C21_KeepaliveEventually ==
    \A c \in Conns :
        (phase[c] = "open") ~>
            \/ ~StaysConnected(c)
            \/ ForFlight(cflight[c], ingestLog) # <<>>
            \/ Keepalives(c) # <<>>

\* ------------------------------------------------------ a client that stalls
\* The client of c stops reading and never resumes.  res.write does not wait
\* for the client: it queues the frame and returns, so a frame written to a
\* stalled connection does not reach the client and raises nothing.
Stall(c) ==
    /\ ~crashed
    /\ phase[c] = "open"
    /\ sink[c] = "up"
    /\ sink' = [sink EXCEPT ![c] = "stalled"]
    /\ UNCHANGED <<variant, env, crashed, clients, latest, phase, closes,
                   cflight, timer, wrote, track, lastReq, lastResp, ingestLog,
                   joinedAt, lateWrites, nIngest, nTicks>>

NextStall ==
    \/ Next
    \/ \E c \in Conns : Stall(c)

SpecStall == Configured /\ [][NextStall]_vars

\* C22: an ingest that broadcasts to a channel with a stalled subscriber (and
\* no subscriber whose connection is torn down) is acknowledged with success in
\* the same handler run, and every other connected subscriber of the channel is
\* written the sample in that run: nothing waits for the stalled one.
C22_StallDelaysNobody ==
    [][ ( /\ StoreStep
          /\ \E s \in Conns :
                Occurs(s, clients[NewEntry.key]) /\ sink[s] = "stalled"
          /\ \A b \in Conns :
                Occurs(b, clients[NewEntry.key]) => sink[b] # "broken" )
        => /\ lastResp' \in Success
           /\ \A c \in Conns :
                 Occurs(c, clients[NewEntry.key]) /\ sink[c] = "up" =>
                     wrote'[c] = Append(wrote[c], DataFrame(NewEntry.json)) ]_vars

C22_Witness ==
    /\ variant = "push"
    /\ clients[cflight[1]] = <<1, 2>>
    /\ sink[1] = "stalled"
    /\ StaysConnected(2)
    /\ joinedAt[1] = 0 /\ joinedAt[2] = 0
    /\ Len(ingestLog) = 1
    /\ ingestLog[1].key = cflight[1]
    /\ lastResp = 204
    /\ Samples(1) = <<>>
    /\ Samples(2) = <<ingestLog[1].json>>

\* A step in which an interval timer fired.
TimerStep == nTicks' = nTicks + 1

\* C23: a timer firing whose write fails harms nobody else: the process keeps
\* running, and every other connection keeps its registration, its timer and
\* the frames it was sent.
C23_StreamErrorIsolated ==
    [][ TimerStep =>
          /\ ~crashed'
          /\ clients' = clients
          /\ timer' = timer
          /\ \A c \in Conns : IsPrefix(wrote[c], wrote'[c]) ]_vars

\* ------------------------------------------------ "bare" alone: part_000
\* part_000 creates no interval timer, so no timer ever fires there.
NextBare ==
    \/ \E c \in Conns, q \in Queries : Stream(c, q)
    \/ \E c \in Conns : Disconnect(c)
    \/ \E c \in Conns : Close(c)
    \/ \E q \in Queries, body \in TrafficBodies, tok \in TrafficTokens,
          now \in Times : Ingest(q, body, tok, now)

InitBare == Configured /\ variant = "bare"
SpecBare == InitBare /\ [][NextBare]_vars

\* The connections registered in some subscriber set.
Registered == {c \in Conns : \E k \in ChanKeys : Occurs(c, clients[k])}

\* C24: the registered connections are exactly the connections whose
\* interval timer is active.
C24_RegisteredIffTimer ==
    \A c \in Conns : (c \in Registered) <=> timer[c]

\* C25: the sample kept for a flight names that flight: its `flight` field is
\* the identifier it is stored under, whichever of query and body gave it.
C25_FlightFieldIsKey ==
    \A k \in FlightKeys :
        latest[k] # <<>> => latest[k][1].flight = Str(k)

\* The secret the running deployment compares the token with; Undef where
\* none is configured and the code has no fallback.
Secret ==
    CASE variant = "push"            -> TOKEN
      [] variant \in {"poll", "poll2"} -> INGEST_TOKEN
      [] OTHER                       -> env

WrongToken(req) == Secret = Undef \/ req.tok # Secret

\* C26: an ingest with a wrong token and a missing or non-finite lat or lon is
\* answered 401 or 403, never 400: the token is looked at first.
C26_TokenBeforePayload ==
    [][ (IngestStep /\ WrongToken(lastReq') /\ ~FiniteCoords(lastReq'.body)) =>
            lastResp' \in {401, 403} ]_vars

C26_Witness ==
    /\ variant = "poll"
    /\ WrongToken(lastReq)
    /\ lastReq.body = BodyNoLon
    /\ lastResp = 403
    /\ nIngest = 2
    /\ ingestLog # <<>>

\* C27: while no secret is configured in the environment no ingest is
\* accepted, whatever token it carries: it is answered without success and
\* stores and sends nothing.
C27_NoSecretNoIngest ==
    [][ (IngestStep /\ env = Undef) =>
            /\ lastResp' \notin Success
            /\ latest' = latest
            /\ wrote' = wrote ]_vars

\* The sample a connect for flight f would be replayed: the flight's own
\* where samples are kept per flight, the single lastData elsewhere.
LastFor(f) == latest[IF variant \in {"global", "bare"} THEN GlobalKey ELSE f]

\* C28: an ingest for flight F leaves the last sample of every other flight,
\* every subscriber set and every timer as they were; a stream connect or a
\* close of connection c leaves every last sample, every other connection's
\* timer and every other connection's registration as they were.
C28_Frame ==
    [][ /\ StoreStep =>
              /\ \A f \in FlightKeys \ {NewEntry.flight} : LastFor(f)' = LastFor(f)
              /\ clients' = clients
              /\ timer' = timer
        /\ \A c \in Conns :
              (phase'[c] # phase[c] \/ closes'[c] # closes[c]) =>
                  /\ latest' = latest
                  /\ \A d \in Conns \ {c} : timer'[d] = timer[d]
                  /\ \A k \in ChanKeys :
                        Without(clients'[k], c) = Without(clients[k], c) ]_vars

\* ------------------------------------------------- the polling deployments
InitPolling == Configured /\ variant \in {"poll", "poll2"}
SpecLivePolling == InitPolling /\ [][NextLive]_vars /\ TimersFire

\* The sample connection c was sent last, if any.
LastSample(c) ==
    IF Samples(c) = <<>> THEN <<>> ELSE <<Samples(c)[Len(Samples(c))]>>

\* The last sample of the flight connection c asked for, as it is written.
Current(c) ==
    IF latest[cflight[c]] = <<>> THEN <<>>
    ELSE <<Stringify(latest[cflight[c]][1])>>

\* C29: in the polling deployments, a subscriber that stays connected while
\* its flight has a last sample is eventually sent that sample as the last one
\* it got (so once ingests have stopped it holds the final sample), and every
\* sample event ever written to a connection is the flight's last sample at
\* that moment.
C29_PollingConverges ==
    /\ \A c \in Conns :
          (phase[c] = "open" /\ Current(c) # <<>>) ~>
              (~StaysConnected(c) \/ LastSample(c) = Current(c))
    /\ [][ \A c \in Conns :
              Samples(c)' # Samples(c) => LastSample(c)' = Current(c)' ]_vars

C29_Witness ==
    /\ variant = "poll"
    /\ StaysConnected(1)
    /\ joinedAt[1] = 0
    /\ nIngest = MaxIngests
    /\ Len(ingestLog) = 2
    /\ \A i \in 1 .. 2 : ingestLog[i].key = cflight[1]
    /\ ingestLog[1].json # ingestLog[2].json
    /\ nTicks = MaxTicks
    /\ Samples(1) = <<ingestLog[1].json, ingestLog[2].json>>

=============================================================================
